---- MODULE Spec2Model ----
(***************************************************************************)
(* OceanDrift3D (opendrift/models/oceandrift3D.py): the per-time-step      *)
(* update of an ensemble of passive tracers.  update() is modelled         *)
(* statement by statement: the program counter pc names the statement of   *)
(* update() that runs next.  The operations update() calls on its base     *)
(* class (advect_ocean_current, advect_wind, vertical_mixing,              *)
(* vertical_advection, deactivate_elements) and the sampling of the        *)
(* environment are not part of oceandrift3D.py; they are modelled from     *)
(* their documented contracts.                                             *)
(***************************************************************************)
EXTENDS Integers, Sequences, FiniteSets, TLC

\* ---------------------------------------------------------------- bounds
NumParticles == 2
MaxSteps == 2
\* first land cell of the model world: longitudes >= CoastLon are land
CoastLon == 2
\* depth of the sea floor of the model world
SeaFloorDepth == 2

\* ------------------------------------------------------ program constants
\* max_age_seconds = float(min=0, default=None): None is encoded as -1,
\* a number outside the range the configspec accepts.
None == -1
\* age_seconds has dtype np.float32: 24 bits of significand
Float32Precision == 16777216

\* ------------------------------------------------------------ input sets
Schemes == {"euler", "runge-kutta"}
TimeSteps == {1, 3600}
MaxAges == {None, 2, 1800, 16777220}
SeedLons == {1}
SeedAges == {0, 16777218}
DriftFactors == {0, 1}
SeedTerminalVelocities == {0, 1}
Currents == {0, 1}
Winds == {0, 1}
UpwardVelocities == {-1}
Diffusivities == {1}
RandomDraws == {-1, 1}

Particles == 1..NumParticles

VARIABLES elements, environment, reader, config, time_step, pc, steps, pre,
          calls

vars == <<elements, environment, reader, config, time_step, pc, steps, pre,
          calls>>

\* ------------------------------------------------------------- float32
Min(a, b) == IF a < b THEN a ELSE b
Max(a, b) == IF a > b THEN a ELSE b

\* spacing of the float32 numbers around the non-negative integer n
RECURSIVE Ulp(_)
Ulp(n) == IF n < Float32Precision THEN 1 ELSE 2 * Ulp(n \div 2)

\* the float32 nearest to the non-negative integer n, ties to even
Float32(n) ==
    IF n < Float32Precision THEN n
    ELSE LET u == Ulp(n)
             q == n \div u
             r == n % u
         IN  IF 2 * r < u THEN q * u
             ELSE IF 2 * r > u THEN (q + 1) * u
             ELSE IF q % 2 = 0 THEN q * u ELSE (q + 1) * u

\* ------------------------------------------------------------ the world
\* land_binary_mask of the world at a longitude
LandAt(lon) == IF lon >= CoastLon THEN 1 ELSE 0

\* the fields of a reader at a longitude: the current and the wind of the
\* hour over water, none over land
CurrentAt(rd, lon) ==
    IF LandAt(lon) = 1 THEN 0 ELSE rd.x_sea_water_velocity

WindAt(rd, lon) == IF LandAt(lon) = 1 THEN 0 ELSE rd.x_wind

\* z is kept between the sea floor and the surface
Clamp(z, floor) == Max(0 - floor, Min(0, z))

\* ------------------------------------------------ operations of update()
\* self.elements.age_seconds += self.time_step.total_seconds()
AgeAccrual(els, dt) ==
    [i \in DOMAIN els |-> [els[i] EXCEPT !.age_seconds = Float32(@ + dt)]]

\* base class: move the active elements with the ambient current.
\* scheme 'euler': by the current of the step's sample.
\* scheme 'runge-kutta': by the current the reader gives at the half-step
\* position, reached with the sampled current from the position the
\* element has when the operation is called (positions are whole cells,
\* half a step is rounded towards the start).
advect_ocean_current(els, env, dt, cfg, rd) ==
    [i \in DOMAIN els |->
        IF els[i].status = "active"
        THEN IF cfg.scheme = "euler"
             THEN [els[i] EXCEPT
                      !.lon = @ + env[i].x_sea_water_velocity * dt]
             ELSE LET mid == els[i].lon
                               + (env[i].x_sea_water_velocity * dt) \div 2
                  IN  [els[i] EXCEPT !.lon = @ + CurrentAt(rd, mid) * dt]
        ELSE els[i]]

\* base class: move the active elements with the wind, scaled by each
\* element's own wind_drift_factor
advect_wind(els, env, dt) ==
    [i \in DOMAIN els |->
        IF els[i].status = "active"
        THEN [els[i] EXCEPT
                 !.lon = @ + els[i].wind_drift_factor * env[i].x_wind * dt]
        ELSE els[i]]

\* mutant: the zero is assigned to wind_drift_factor, the wrong attribute
update_terminal_velocityWrongAttribute(els) ==
    [i \in DOMAIN els |-> [els[i] EXCEPT !.wind_drift_factor = 0]]

\* mutant: the zero is assigned to a local name, the elements keep theirs
update_terminal_velocityNoEffect(els) == els

\* self.elements.terminal_velocity = 0.
update_terminal_velocity(els) ==
    [i \in DOMAIN els |-> [els[i] EXCEPT !.terminal_velocity = 0]]

\* base class: random vertical displacement from the diffusivity, plus the
\* terminal velocity; draw[i] is the random draw of element i
vertical_mixing(els, env, draw) ==
    [i \in DOMAIN els |->
        IF els[i].status = "active"
        THEN [els[i] EXCEPT
                 !.z = Clamp(@ + els[i].terminal_velocity
                               + draw[i] * env[i].ocean_vertical_diffusivity,
                             env[i].sea_floor_depth_below_sea_level)]
        ELSE els[i]]

\* base class: vertical displacement by the upward water velocity
vertical_advection(els, env, dt) ==
    [i \in DOMAIN els |->
        IF els[i].status = "active"
        THEN [els[i] EXCEPT
                 !.z = Clamp(@ + env[i].upward_sea_water_velocity * dt,
                             env[i].sea_floor_depth_below_sea_level)]
        ELSE els[i]]

\* base class: mark the elements of the mask that are still active as
\* deactivated with the reason; elements already deactivated keep theirs
deactivate_elements(els, mask, reason) ==
    [i \in DOMAIN els |->
        IF mask[i] /\ els[i].status = "active"
        THEN [els[i] EXCEPT !.status = reason]
        ELSE els[i]]

\* self.environment.land_binary_mask == 1
LandMask(els, env) == [i \in DOMAIN els |-> env[i].land_binary_mask = 1]

\* mutant: (age_seconds >= max_age_seconds).any(), one flag for all elements
AgeMaskAny(els, cfg) ==
    [i \in DOMAIN els |->
        \E j \in DOMAIN els :
            els[j].age_seconds >= Float32(cfg.max_age_seconds)]

\* mutant: age_seconds > max_age_seconds
AgeMaskStrict(els, cfg) ==
    [i \in DOMAIN els |->
        els[i].age_seconds > Float32(cfg.max_age_seconds)]

\* self.elements.age_seconds >= self.config['drift']['max_age_seconds']
AgeMask(els, cfg) ==
    [i \in DOMAIN els |->
        els[i].age_seconds >= Float32(cfg.max_age_seconds)]

\* the elements of a mask are set to the reason, whatever their status was
AssignStatus(els, mask, reason) ==
    [i \in DOMAIN els |->
        IF mask[i] THEN [els[i] EXCEPT !.status = reason] ELSE els[i]]

\* the elements of a mask are taken out of the arrays
RemoveMasked(els, mask) ==
    LET keep == {i \in DOMAIN els : ~mask[i]}
        Nth(j) == CHOOSE i \in keep :
                      Cardinality({k \in keep : k < i}) = j - 1
    IN  [j \in 1..Cardinality(keep) |-> els[Nth(j)]]

\* mutant: status[land_binary_mask == 1] = 'stranded', assigned directly
DeactivateStrandedAssign(els, env) ==
    AssignStatus(els, LandMask(els, env), "stranded")

\* mutant: the elements on land are deleted instead of flagged
DeactivateStrandedRemove(els, env) ==
    RemoveMasked(els, LandMask(els, env))

\* self.deactivate_elements(land_binary_mask == 1, reason='stranded')
DeactivateStranded(els, env) ==
    deactivate_elements(els, LandMask(els, env), "stranded")

\* mutant: status[age_seconds >= max_age_seconds] = 'retired', assigned
\* directly
DeactivateRetiredAssign(els, cfg) ==
    AssignStatus(els, AgeMask(els, cfg), "retired")

\* self.deactivate_elements(age_seconds >= max_age_seconds, reason='retired')
DeactivateRetired(els, cfg) ==
    deactivate_elements(els, AgeMask(els, cfg), "retired")

\* ------------------------------------------------- the gates of update()
\* mutant: the mixing block runs whatever the flag
MixingAlways(cfg) == TRUE

\* if self.config['processes']['turbulentmixing'] is True
MixingEnabled(cfg) == cfg.turbulentmixing = TRUE

\* mutant: the vertical advection is gated by the turbulentmixing flag
VerticalAdvectionWithMixing(cfg) == cfg.turbulentmixing = TRUE

\* if self.config['processes']['verticaladvection'] is True
VerticalAdvectionEnabled(cfg) == cfg.verticaladvection = TRUE

\* mutant: the age check runs whatever max_age_seconds is
RetirementAlways(cfg) == TRUE

\* if self.config['drift']['max_age_seconds'] is not None
RetirementEnabled(cfg) == cfg.max_age_seconds # None

\* the statement that follows self.advect_ocean_current()
AfterCurrent == "advect_wind"

\* mutant: the wind advection is called first, the current advection lost
AfterAgeWindFirst == "advect_wind"

\* the statement that follows self.elements.age_seconds += ...
AfterAge == "advect_ocean_current"

\* the statement that follows self.advect_wind()
AfterWind(cfg) ==
    IF MixingEnabled(cfg) THEN "update_terminal_velocity"
    ELSE IF VerticalAdvectionEnabled(cfg) THEN "vertical_advection"
    ELSE "deactivate_stranded"

\* the statement that follows self.vertical_mixing()
AfterMixing(cfg) ==
    IF VerticalAdvectionEnabled(cfg) THEN "vertical_advection"
    ELSE "deactivate_stranded"

\* the statement that follows the deactivation on land
AfterStranded(cfg) ==
    IF RetirementEnabled(cfg) THEN "deactivate_retired" ELSE "idle"

\* update() as a function of the elements, the environment sample, the
\* reader, the configuration, the time step and the random draws of the
\* mixing
UpdateResult(els, env, rd, cfg, dt, draw) ==
    LET aged == AgeAccrual(els, dt)
        drifted == advect_wind(advect_ocean_current(aged, env, dt, cfg, rd),
                               env, dt)
        mixed == IF MixingEnabled(cfg)
                 THEN vertical_mixing(update_terminal_velocity(drifted),
                                      env, draw)
                 ELSE drifted
        advected == IF VerticalAdvectionEnabled(cfg)
                    THEN vertical_advection(mixed, env, dt)
                    ELSE mixed
        stranded == DeactivateStranded(advected, env)
    IN  IF RetirementEnabled(cfg)
        THEN DeactivateRetired(stranded, cfg)
        ELSE stranded

\* ---------------------------------------------------------------- state
Element(id, lon, age, wdf, tv) ==
    [ID |-> id, lon |-> lon, z |-> 0, age_seconds |-> age,
     wind_drift_factor |-> wdf, terminal_velocity |-> tv,
     status |-> "active"]

\* fallback_values: no current and no wind before the first sampling
NoForcing == [x_sea_water_velocity |-> 0, x_wind |-> 0]

Init ==
    /\ \E lon \in SeedLons, age \in [Particles -> SeedAges],
          wdf \in [Particles -> DriftFactors],
          tv \in SeedTerminalVelocities :
          elements = [i \in Particles |->
                         Element(i, lon, age[i], wdf[i], tv)]
    /\ \E sc \in Schemes, tm \in BOOLEAN, va \in BOOLEAN, ma \in MaxAges :
          config = [scheme |-> sc, turbulentmixing |-> tm,
                    verticaladvection |-> va, max_age_seconds |-> ma]
    /\ time_step \in TimeSteps
    /\ environment = <<>>
    /\ reader = NoForcing
    /\ pc = "idle"
    /\ steps = 0
    /\ pre = elements
    /\ calls = <<>>

\* a long run: the particles have drifted for 2^24 seconds, the time step
\* is one second and the age limit lies two seconds ahead
OldSeedAges == {16777216}
SlowTimeSteps == {1}
LateMaxAges == {16777218}

InitOld ==
    /\ \E lon \in SeedLons, age \in [Particles -> OldSeedAges],
          wdf \in [Particles -> DriftFactors],
          tv \in SeedTerminalVelocities :
          elements = [i \in Particles |->
                         Element(i, lon, age[i], wdf[i], tv)]
    /\ \E sc \in Schemes, tm \in BOOLEAN, va \in BOOLEAN,
          ma \in LateMaxAges :
          config = [scheme |-> sc, turbulentmixing |-> tm,
                    verticaladvection |-> va, max_age_seconds |-> ma]
    /\ time_step \in SlowTimeSteps
    /\ environment = <<>>
    /\ reader = NoForcing
    /\ pc = "idle"
    /\ steps = 0
    /\ pre = elements
    /\ calls = <<>>

\* the sampling layer: the reader takes the current and the wind of the
\* hour, and the fields are read at each element's position before
\* update() is called
get_environment ==
    /\ pc = "idle"
    /\ steps < MaxSteps
    /\ \E u \in Currents, wind \in Winds, w \in UpwardVelocities,
          k \in Diffusivities :
          /\ reader' = [x_sea_water_velocity |-> u, x_wind |-> wind]
          /\ environment' = [i \in DOMAIN elements |->
                [x_sea_water_velocity |-> CurrentAt(reader', elements[i].lon),
                 x_wind |-> WindAt(reader', elements[i].lon),
                 upward_sea_water_velocity |-> w,
                 ocean_vertical_diffusivity |-> k,
                 sea_floor_depth_below_sea_level |-> SeaFloorDepth,
                 land_binary_mask |-> LandAt(elements[i].lon)]]
    /\ pre' = elements
    /\ calls' = <<>>
    /\ steps' = steps + 1
    /\ pc' = "age_seconds"
    /\ UNCHANGED <<elements, config, time_step>>

update_age_seconds ==
    /\ pc = "age_seconds"
    /\ elements' = AgeAccrual(elements, time_step)
    /\ calls' = Append(calls, "age_seconds")
    /\ pc' = AfterAge
    /\ UNCHANGED <<environment, reader, config, time_step, steps, pre>>

update_advect_ocean_current ==
    /\ pc = "advect_ocean_current"
    /\ elements' = advect_ocean_current(elements, environment, time_step,
                                        config, reader)
    /\ calls' = Append(calls, "advect_ocean_current")
    /\ pc' = AfterCurrent
    /\ UNCHANGED <<environment, reader, config, time_step, steps, pre>>

\* mutant: self.advect_wind() is called twice
update_advect_windTwice ==
    /\ pc = "advect_wind"
    /\ elements' = advect_wind(advect_wind(elements, environment, time_step),
                               environment, time_step)
    /\ calls' = Append(calls, "advect_wind")
    /\ pc' = AfterWind(config)
    /\ UNCHANGED <<environment, reader, config, time_step, steps, pre>>

\* mutant: the wind is read again at the position the current advection
\* has reached, not taken from the step's sample
update_advect_windResampled ==
    /\ pc = "advect_wind"
    /\ elements' = advect_wind(elements,
                               [i \in DOMAIN elements |->
                                   [environment[i] EXCEPT
                                       !.x_wind =
                                           WindAt(reader, elements[i].lon)]],
                               time_step)
    /\ calls' = Append(calls, "advect_wind")
    /\ pc' = AfterWind(config)
    /\ UNCHANGED <<environment, reader, config, time_step, steps, pre>>

update_advect_wind ==
    /\ pc = "advect_wind"
    /\ elements' = advect_wind(elements, environment, time_step)
    /\ calls' = Append(calls, "advect_wind")
    /\ pc' = AfterWind(config)
    /\ UNCHANGED <<environment, reader, config, time_step, steps, pre>>

update_update_terminal_velocity ==
    /\ pc = "update_terminal_velocity"
    /\ elements' = update_terminal_velocity(elements)
    /\ calls' = Append(calls, "update_terminal_velocity")
    /\ pc' = "vertical_mixing"
    /\ UNCHANGED <<environment, reader, config, time_step, steps, pre>>

update_vertical_mixing ==
    /\ pc = "vertical_mixing"
    /\ \E r \in RandomDraws :
          elements' = vertical_mixing(elements, environment,
                                      [i \in DOMAIN elements |-> r])
    /\ calls' = Append(calls, "vertical_mixing")
    /\ pc' = AfterMixing(config)
    /\ UNCHANGED <<environment, reader, config, time_step, steps, pre>>

update_vertical_advection ==
    /\ pc = "vertical_advection"
    /\ elements' = vertical_advection(elements, environment, time_step)
    /\ calls' = Append(calls, "vertical_advection")
    /\ pc' = "deactivate_stranded"
    /\ UNCHANGED <<environment, reader, config, time_step, steps, pre>>

update_deactivate_stranded ==
    /\ pc = "deactivate_stranded"
    /\ elements' = DeactivateStranded(elements, environment)
    /\ calls' = Append(calls, "deactivate_stranded")
    /\ pc' = AfterStranded(config)
    /\ UNCHANGED <<environment, reader, config, time_step, steps, pre>>

update_deactivate_retired ==
    /\ pc = "deactivate_retired"
    /\ elements' = DeactivateRetired(elements, config)
    /\ calls' = Append(calls, "deactivate_retired")
    /\ pc' = "idle"
    /\ UNCHANGED <<environment, reader, config, time_step, steps, pre>>

Next ==
    \/ get_environment
    \/ update_age_seconds
    \/ update_advect_ocean_current
    \/ update_advect_wind
    \/ update_update_terminal_velocity
    \/ update_vertical_mixing
    \/ update_vertical_advection
    \/ update_deactivate_stranded
    \/ update_deactivate_retired

Spec == Init /\ [][Next]_vars

SpecOld == InitOld /\ [][Next]_vars

\* a step has run to its end
StepDone == pc = "idle" /\ steps > 0

TypeOK ==
    /\ pc \in {"idle", "age_seconds", "advect_ocean_current", "advect_wind",
               "update_terminal_velocity", "vertical_mixing",
               "vertical_advection", "deactivate_stranded",
               "deactivate_retired"}
    /\ steps \in 0..MaxSteps
    /\ \A i \in DOMAIN elements :
          elements[i].status \in {"active", "stranded", "retired"}

\* ======================================================== the claims
IsPrefix(s, t) ==
    /\ Len(s) <= Len(t)
    /\ \A k \in 1..Len(s) : s[k] = t[k]

Contains(s, x) == \E k \in 1..Len(s) : s[k] = x

\* the order of operations the specification gives for a configuration
ExpectedOrder(cfg) ==
    <<"age_seconds", "advect_ocean_current", "advect_wind">>
    \o (IF cfg.turbulentmixing
        THEN <<"update_terminal_velocity", "vertical_mixing">> ELSE <<>>)
    \o (IF cfg.verticaladvection THEN <<"vertical_advection">> ELSE <<>>)
    \o <<"deactivate_stranded">>
    \o (IF cfg.max_age_seconds # None
        THEN <<"deactivate_retired">> ELSE <<>>)

\* C1: within one call of update() the operations run in the fixed order
\* age accrual, current advection, wind advection, (turbulentmixing only)
\* terminal velocity then vertical mixing, (verticaladvection only)
\* vertical advection, land deactivation, (max_age_seconds set only)
\* age retirement: at every moment the operations run so far are a prefix
\* of that order, and a finished step has run exactly that order.
C1_FixedOrder ==
    /\ IsPrefix(calls, ExpectedOrder(config))
    /\ StepDone => calls = ExpectedOrder(config)

C1_Witness ==
    /\ StepDone
    /\ config.turbulentmixing /\ config.verticaladvection
    /\ config.max_age_seconds # None
    /\ Len(calls) = 8

\* C2 (as claimed): every particle active when a step starts ends the step
\* with age_seconds equal to its age before the step plus dt exactly.
C2_AgePlusDtExactly ==
    StepDone =>
        \A i \in DOMAIN pre :
            pre[i].status = "active" =>
                elements[i].age_seconds = pre[i].age_seconds + time_step

\* a particle of the step met both deactivation conditions
BothConditions(i) ==
    /\ pre[i].status = "active"
    /\ environment[i].land_binary_mask = 1
    /\ config.max_age_seconds # None
    /\ elements[i].age_seconds >= config.max_age_seconds

\* C3: a particle whose land mask is 1 in a step and whose age after
\* accrual is >= max_age_seconds in the same step ends the step stranded,
\* never retired.
C3_LandBeforeAge ==
    StepDone =>
        \A i \in DOMAIN pre :
            BothConditions(i) => elements[i].status = "stranded"

C3_Witness ==
    /\ StepDone
    /\ \E i \in DOMAIN pre : BothConditions(i)

\* C4: status is monotone: once a particle is stranded or retired no step
\* of the program sets it back to active or to another reason.
C4_StatusMonotone ==
    [][\A i \in DOMAIN elements :
          elements[i].status # "active" =>
              /\ i \in DOMAIN elements'
              /\ elements'[i].status = elements[i].status]_vars

\* a retired particle lay on land during a later step and stayed retired
C4_Witness ==
    /\ StepDone
    /\ \E i \in DOMAIN pre :
          /\ pre[i].status = "retired"
          /\ environment[i].land_binary_mask = 1
          /\ elements[i].status = "retired"

\* C5 (as claimed): a step leaves the status, the age_seconds and the
\* position of a particle that was inactive when the step started
\* unchanged.
C5_InactiveUntouched ==
    StepDone =>
        \A i \in DOMAIN pre :
            pre[i].status # "active" =>
                /\ elements[i].status = pre[i].status
                /\ elements[i].age_seconds = pre[i].age_seconds
                /\ elements[i].lon = pre[i].lon
                /\ elements[i].z = pre[i].z

\* C6: with max_age_seconds unset no particle ever gets status retired,
\* whatever its age; the only deactivation is stranded.
C6_UnsetNeverRetires ==
    config.max_age_seconds = None =>
        \A i \in DOMAIN elements :
            elements[i].status \in {"active", "stranded"}

\* an old particle came through a step without an age limit
C6_Witness ==
    /\ StepDone
    /\ config.max_age_seconds = None
    /\ \E i \in DOMAIN elements :
          /\ elements[i].age_seconds > Float32Precision
          /\ elements[i].status = "active"
    /\ \E i \in DOMAIN elements : elements[i].status = "stranded"

\* C7 (as claimed): with max_age_seconds set, a particle active at the
\* start of a step and not on land in it is retired at the end of the step
\* if and only if its age before the step plus dt is >= max_age_seconds.
C7_RetiredIffAgeReached ==
    (StepDone /\ config.max_age_seconds # None) =>
        \A i \in DOMAIN pre :
            (pre[i].status = "active"
             /\ environment[i].land_binary_mask # 1) =>
                (elements[i].status = "retired"
                 <=> pre[i].age_seconds + time_step
                         >= config.max_age_seconds)

\* C8 (as claimed): a particle that starts a step on water and is moved
\* onto a land cell by that step is stranded at the end of the same step.
C8_StrandedWhereItArrives ==
    StepDone =>
        \A i \in DOMAIN pre :
            (/\ pre[i].status = "active"
             /\ LandAt(pre[i].lon) = 0
             /\ LandAt(elements[i].lon) = 1) =>
                elements[i].status = "stranded"

\* the diffusivity values a second run may see
OtherDiffusivities == {0, 1, 2}

WithDiffusivity(env, k) ==
    [i \in DOMAIN env |-> [env[i] EXCEPT !.ocean_vertical_diffusivity = k]]

\* C9: with turbulentmixing false, a run of the step that differs only in
\* the diffusivity values of the environment sample ends in the same
\* ensemble state, the mixing is never invoked and terminal_velocity is
\* not recomputed.
C9_DiffusivityIgnored ==
    ~config.turbulentmixing =>
        /\ ~Contains(calls, "vertical_mixing")
        /\ ~Contains(calls, "update_terminal_velocity")
        /\ StepDone =>
              \A k \in OtherDiffusivities, r \in RandomDraws :
                  UpdateResult(pre, WithDiffusivity(environment, k), reader,
                               config, time_step, [i \in DOMAIN pre |-> r])
                      = elements

C9_Witness ==
    /\ StepDone
    /\ ~config.turbulentmixing
    /\ \E i \in DOMAIN elements :
          /\ pre[i].status = "active"
          /\ environment[i].ocean_vertical_diffusivity = 1
          /\ elements[i].terminal_velocity = 1

\* C10: no step of the program adds, removes or reorders particles: the
\* number of particles and the particle at each index stay the same.
C10_EnsembleStable ==
    [][/\ Len(elements') = Len(elements)
       /\ \A i \in DOMAIN elements : elements'[i].ID = elements[i].ID]_vars

\* a step that deactivated a particle left the ensemble as long as it was
C10_Witness ==
    /\ StepDone
    /\ Len(elements) = NumParticles
    /\ \A i \in DOMAIN elements : elements[i].ID = i
    /\ \E i \in DOMAIN elements :
          pre[i].status = "active" /\ elements[i].status # "active"

\* C11: a step leaves the environment sample, the configuration, the time
\* step and every particle's wind_drift_factor unchanged; of a particle it
\* writes only position, age_seconds, terminal_velocity and status.
C11_FrameOfStep ==
    [][pc # "idle" =>
          /\ environment' = environment
          /\ reader' = reader
          /\ config' = config
          /\ time_step' = time_step
          /\ \A i \in DOMAIN elements :
                /\ i \in DOMAIN elements'
                /\ elements'[i].wind_drift_factor
                       = elements[i].wind_drift_factor
                /\ elements'[i].ID = elements[i].ID]_vars

\* a step with mixing moved a wind-driven particle, aged it and reset its
\* terminal velocity, and its drift factor is still 1
C11_Witness ==
    /\ StepDone
    /\ config.turbulentmixing
    /\ \E i \in DOMAIN elements :
          /\ pre[i].wind_drift_factor = 1
          /\ elements[i].wind_drift_factor = 1
          /\ elements[i].lon # pre[i].lon
          /\ elements[i].age_seconds # pre[i].age_seconds
          /\ pre[i].terminal_velocity = 1
          /\ elements[i].terminal_velocity = 0
          /\ environment[i].x_wind = 1

\* C12: the wind advection displaces each active particle by its own
\* wind_drift_factor times the wind times dt: nothing for a factor of 0,
\* the full wind displacement for a factor of 1, whatever the factors of
\* the other particles.
C12_WindScaledPerParticle ==
    [][pc = "advect_wind" =>
          \A i \in DOMAIN elements :
              elements[i].status = "active" =>
                  /\ elements'[i].lon - elements[i].lon
                         = elements[i].wind_drift_factor
                               * environment[i].x_wind * time_step
                  /\ elements[i].wind_drift_factor = 0 =>
                         elements'[i].lon = elements[i].lon
                  /\ elements[i].wind_drift_factor = 1 =>
                         elements'[i].lon
                             = elements[i].lon
                                   + environment[i].x_wind * time_step]_vars

\* the wind advection has just run under wind: the particle of factor 0
\* stayed where the current put it, the one of factor 1 went with the wind
C12_Witness ==
    /\ Len(calls) = 3 /\ calls[3] = "advect_wind"
    /\ \E i, j \in DOMAIN elements :
          /\ pre[i].status = "active" /\ pre[j].status = "active"
          /\ environment[i].x_wind = 1 /\ environment[j].x_wind = 1
          /\ elements[i].wind_drift_factor = 0
          /\ elements[j].wind_drift_factor = 1
          /\ elements[i].lon
                 = pre[i].lon + environment[i].x_sea_water_velocity * time_step
          /\ elements[j].lon
                 = pre[j].lon + environment[j].x_sea_water_velocity * time_step
                       + time_step

\* the two advections in the other order
WindThenCurrent(els, env, dt, cfg, rd) ==
    advect_ocean_current(advect_wind(els, env, dt), env, dt, cfg, rd)

\* the position after the two advections is the pre-step position plus the
\* current displacement plus the wind displacement of the step's sample
Additive(i) ==
    pre[i].status = "active" =>
        elements[i].lon
            = pre[i].lon
              + environment[i].x_sea_water_velocity * time_step
              + pre[i].wind_drift_factor * environment[i].x_wind * time_step

\* wind advection before current advection gives the same position
OrderInsensitive(i) ==
    WindThenCurrent(pre, environment, time_step, config, reader)[i].lon
        = elements[i].lon

C14_MixingSeesZeroVelocity ==
    pc = "vertical_mixing" =>
        /\ config.turbulentmixing
        /\ Len(calls) > 0 /\ calls[Len(calls)] = "update_terminal_velocity"
        /\ \A i \in DOMAIN elements : elements[i].terminal_velocity = 0

\* the mixing is about to run on a particle that entered the step with a
\* terminal velocity of 1
C14_Witness ==
    /\ pc = "vertical_mixing"
    /\ \E i \in DOMAIN elements :
          /\ pre[i].status = "active"
          /\ pre[i].terminal_velocity = 1
          /\ elements[i].terminal_velocity = 0

Count(s, x) == Cardinality({k \in 1..Len(s) : s[k] = x})

\* C15: the two process flags gate independently: a step invokes current
\* advection and wind advection once each, terminal-velocity recompute and
\* vertical mixing once each if and only if turbulentmixing is true (never
\* otherwise), and vertical advection once if and only if
\* verticaladvection is true (never otherwise).
C15_FlagsGateIndependently ==
    StepDone =>
        /\ Count(calls, "advect_ocean_current") = 1
        /\ Count(calls, "advect_wind") = 1
        /\ Count(calls, "update_terminal_velocity")
               = (IF config.turbulentmixing THEN 1 ELSE 0)
        /\ Count(calls, "vertical_mixing")
               = (IF config.turbulentmixing THEN 1 ELSE 0)
        /\ Count(calls, "vertical_advection")
               = (IF config.verticaladvection THEN 1 ELSE 0)

\* a step with mixing and without vertical advection
C15_Witness ==
    /\ StepDone
    /\ config.turbulentmixing /\ ~config.verticaladvection
    /\ Count(calls, "vertical_mixing") = 1
    /\ Count(calls, "vertical_advection") = 0
    /\ \E i \in DOMAIN elements : elements[i].z # pre[i].z

\* the fields a step can read beyond its sample: none under 'euler', the
\* reader's under 'runge-kutta' (at the particle's own half-step position)
FieldsRead(cfg, rd) == IF cfg.scheme = "euler" THEN NoForcing ELSE rd

\* C16: the outcome of a step for a particle depends only on that
\* particle's own prior state and on the sample at its own position: it is
\* the outcome of the step run on that particle alone, with no other
\* particle and no other particle's sample present.
C16_ParticlesIndependent ==
    StepDone =>
        \A i \in DOMAIN pre :
            \E r \in RandomDraws :
                UpdateResult(<<pre[i]>>, <<environment[i]>>,
                             FieldsRead(config, reader), config,
                             time_step, <<r>>)[1] = elements[i]

\* two particles of different age and drift factor went through one step
\* and came out apart: one retired, one still active and elsewhere
C16_Witness ==
    /\ StepDone
    /\ \E i, j \in DOMAIN pre :
          /\ pre[i].status = "active" /\ pre[j].status = "active"
          /\ pre[i].age_seconds # pre[j].age_seconds
          /\ pre[i].wind_drift_factor # pre[j].wind_drift_factor
          /\ elements[i].status = "retired"
          /\ elements[j].status = "active"
          /\ elements[i].lon # elements[j].lon

\* C17: with max_age_seconds set, after every step every particle that is
\* still active has age_seconds < max_age_seconds and had a land mask other
\* than 1 in that step.
C17_ActiveAreYoungAndAtSea ==
    (StepDone /\ config.max_age_seconds # None) =>
        \A i \in DOMAIN elements :
            elements[i].status = "active" =>
                /\ elements[i].age_seconds < config.max_age_seconds
                /\ environment[i].land_binary_mask # 1

\* a step ended with a particle one step short of the age limit still
\* active while an older one was retired
C17_Witness ==
    /\ StepDone
    /\ config.max_age_seconds # None
    /\ \E i, j \in DOMAIN elements :
          /\ elements[i].status = "active"
          /\ elements[i].age_seconds > 0
          /\ elements[i].age_seconds + time_step >= config.max_age_seconds
          /\ pre[j].status = "active"
          /\ elements[j].status = "retired"

\* C18 (as claimed): with max_age_seconds set and dt > 0, a particle
\* seeded with age a is inactive no later than the first step k with
\* a + k * dt >= max_age_seconds.
C18_InactiveByTheStepOfItsAge ==
    StepDone =>
        \A i \in DOMAIN elements :
            (\A a \in OldSeedAges :
                 a + steps * time_step >= config.max_age_seconds) =>
                elements[i].status # "active"
====
